---------------------------- MODULE Spec2Model ----------------------------
(***************************************************************************)
(* A model of csscolorparser's Color value (src/src/color.rs): the angle   *)
(* utilities, the cylindrical conversions (HSL, HSV, HWB), the gamma and   *)
(* Oklab transforms, the text formatters and the interpolation operators.  *)
(*                                                                         *)
(* Every field of Color is an f32.  The model keeps f32 arithmetic: a      *)
(* finite f32 is the pair <<m, e>> standing for m * 2^e, with |m| < 2^24   *)
(* and m odd (or <<0, 0>> for zero), and +, -, *, / and % round exactly as *)
(* IEEE-754 binary32 does (to nearest, ties to even).  The infinities are  *)
(* the pairs <<1, 128>> and <<-1, 128>> and NaN is <<0, 128>>: a division  *)
(* by zero produces them and the operations carry them on as f32 does.     *)
(* The sign of zero, subnormal numbers and overflow are outside the model: *)
(* no input of the model produces them.                                    *)
(*                                                                         *)
(* f32::powf and f32::cbrt are the platform's library functions, and Rust  *)
(* leaves their precision unspecified: the model takes them as a choice    *)
(* among the f32 values within one unit in the last place of the real      *)
(* power, a choice made afresh at every call.  Every function that calls   *)
(* them is therefore the set of the values it may return.                  *)
(***************************************************************************)
EXTENDS Integers, Sequences, FiniteSets, TLC

(***************************************************************************)
(* f32 arithmetic                                                          *)
(***************************************************************************)

\* The significand of an f32 holds 24 bits.
MantBits == 24

Abs(n) == IF n < 0 THEN -n ELSE n

Sgn(n) == IF n < 0 THEN -1 ELSE IF n > 0 THEN 1 ELSE 0

\* The number of bits of the natural number n < 2^31 (0 for 0).
BitLen(n) ==
    IF n = 0 THEN 0
    ELSE CHOOSE k \in 1..31 : 2 ^ (k - 1) <= n /\ (k = 31 \/ n < 2 ^ k)

\* m * 2^e with the k trailing zero bits of m moved into the exponent.
Strip(m, e, k) == <<m \div (2 ^ k), e + k>>

\* The canonical pair of m * 2^e: the mantissa odd, zero as <<0, 0>>.
Canon(m, e) ==
    IF m = 0 THEN <<0, 0>>
    ELSE Strip(m, e, CHOOSE j \in 0..30 : (Abs(m) \div (2 ^ j)) % 2 = 1)

\* Rounding to nearest, ties to even: of a magnitude q + r / (2 * half),
\* q goes up when r is above half, or on the half when something below r
\* was lost already (sticky) or q is odd.
RoundCut(sg, q, r, half, e, sticky) ==
    Canon(sg * (IF r > half \/ (r = half /\ (sticky \/ q % 2 = 1))
                THEN q + 1 ELSE q),
          e)

\* m * 2^e rounded after its k lowest bits are cut off.
RoundShift(m, e, sticky, k) ==
    IF k <= 0 THEN Canon(m, e)
    ELSE RoundCut(Sgn(m), Abs(m) \div (2 ^ k), Abs(m) % (2 ^ k), 2 ^ (k - 1),
                  e + k, sticky)

\* The f32 nearest to m * 2^e (ties to even), for |m| < 2^30.  With sticky,
\* the magnitude rounded is strictly between |m| and |m| + 1.
RoundTo24(m, e, sticky) == RoundShift(m, e, sticky, BitLen(Abs(m)) - MantBits)

\* f32::INFINITY and f32::NAN; 2^128 is above every finite f32.
Inf == <<1, 128>>

NaN == <<0, 128>>

\* a is an infinity or NaN.
NonFinite(a) == a[2] = Inf[2]

\* The infinity of sign sg.
SignedInf(sg) == <<sg, Inf[2]>>

fneg(a) == <<-a[1], a[2]>>

\* The exponent of the bit above a's leading bit.
Top(a) == BitLen(Abs(a[1])) + a[2]

\* The sum of big and small as <<T, u - 1>>, T * 2^(u - 1) standing for it:
\* big is held at exponent u with three guard bits, small (of magnitude n)
\* is shifted sh bits under it and what falls off is kept as half a unit.
AddUnder(big, small, u, sh, n) ==
    << 2 * (Sgn(big[1]) * Abs(big[1]) * 2 ^ (big[2] - u)
            + Sgn(small[1]) * (IF sh <= 0 THEN n * 2 ^ (-sh)
                               ELSE IF sh > 30 THEN 0 ELSE n \div (2 ^ sh)))
         + (IF sh > 30 \/ (sh > 0 /\ n % (2 ^ sh) # 0)
            THEN Sgn(small[1]) ELSE 0),
       u - 1 >>

\* a + b where the two do not fit one 30-bit integer and top is Top(big).
AddFar(big, small, top) ==
    AddUnder(big, small, top - 27, top - 27 - small[2], Abs(small[1]))

\* The exact sum of a and b (or the sum with its sticky half unit) as an
\* integer and an exponent; ta and tb are Top(a) and Top(b), emin the
\* smaller exponent.
AddAligned(a, b, ta, tb, emin) ==
    IF ta - emin <= 29 /\ tb - emin <= 29
    THEN <<a[1] * 2 ^ (a[2] - emin) + b[1] * 2 ^ (b[2] - emin), emin>>
    ELSE IF ta >= tb THEN AddFar(a, b, ta) ELSE AddFar(b, a, tb)

RoundPair(p) == RoundTo24(p[1], p[2], FALSE)

\* a + b where one of the two is not finite: NaN stays NaN, an infinity
\* wins over a finite number, and opposite infinities give NaN.
AddNonFinite(a, b) ==
    IF a = NaN \/ b = NaN THEN NaN
    ELSE IF ~NonFinite(a) THEN b
    ELSE IF ~NonFinite(b) \/ a = b THEN a
    ELSE NaN

\* f32 addition.
fadd(a, b) ==
    IF NonFinite(a) \/ NonFinite(b) THEN AddNonFinite(a, b)
    ELSE IF a[1] = 0 THEN b
    ELSE IF b[1] = 0 THEN a
    ELSE RoundPair(AddAligned(a, b, Top(a), Top(b),
                              IF a[2] < b[2] THEN a[2] ELSE b[2]))

\* f32 subtraction.
fsub(a, b) == fadd(a, fneg(b))

\* (hi * 2^24 + lo) * 2^e rounded, hi holding k bits.
MulRound(sg, hi, lo, k, e) ==
    IF sg = 0 THEN <<0, 0>>
    ELSE RoundTo24(sg * (IF k <= 3 THEN hi * 16777216 + lo
                         ELSE hi * 2 ^ (27 - k) + lo \div (2 ^ (k - 3))),
                   IF k <= 3 THEN e ELSE e + k - 3,
                   k > 3 /\ lo % (2 ^ (k - 3)) # 0)

\* The product hh * 2^24 + mid * 2^12 + ll as hi * 2^24 + lo, t being the
\* part below 2^24 before its carry is taken.
MulSums(sg, hh, mid, t, e) ==
    MulRound(sg, hh + mid \div 4096 + t \div 16777216, t % 16777216,
             BitLen(hh + mid \div 4096 + t \div 16777216), e)

MulCross(sg, hh, mid, ll, e) == MulSums(sg, hh, mid, ll + (mid % 4096) * 4096, e)

MulHalves(sg, ah, al, bh, bl, e) ==
    MulCross(sg, ah * bh, ah * bl + al * bh, al * bl, e)

\* a * b where one of the two is not finite: NaN stays NaN, zero times an
\* infinity is NaN, anything else is an infinity.
MulNonFinite(a, b) ==
    IF a[1] = 0 \/ b[1] = 0 THEN NaN ELSE SignedInf(Sgn(a[1]) * Sgn(b[1]))

\* f32 multiplication: the 48-bit product of the mantissas is built from
\* 12-bit halves as hi * 2^24 + lo and rounded once.
fmul(a, b) ==
    IF NonFinite(a) \/ NonFinite(b) THEN MulNonFinite(a, b)
    ELSE MulHalves(Sgn(a[1]) * Sgn(b[1]),
                   Abs(a[1]) \div 4096, Abs(a[1]) % 4096,
                   Abs(b[1]) \div 4096, Abs(b[1]) % 4096,
                   a[2] + b[2])

IMin(i, j) == IF i < j THEN i ELSE j

RECURSIVE DivLoop(_, _, _, _)
RECURSIVE DivStep(_, _, _, _, _)
\* Long division: quotient bits are produced, as many at a time (c) as 31
\* bits hold, until the quotient holds 27 bits or the remainder is zero.
\* Returns <<quotient, remainder, shifts>>.
DivLoop(q, r, d, s) ==
    IF r = 0 \/ q >= 67108864 THEN <<q, r, s>>
    ELSE DivStep(q, r, d, s, IMin(31 - BitLen(d), 30 - BitLen(q)))

DivStep(q, r, d, s, c) ==
    DivLoop(q * 2 ^ c + (r * 2 ^ c) \div d, (r * 2 ^ c) % d, d, s + c)

RoundQuot(l) == RoundTo24(l[1], -l[3], l[2] # 0)

\* The f32 nearest to the fraction n / d of two positive integers below 2^30.
RatToF32(n, d) == RoundQuot(DivLoop(n \div d, n % d, d, 0))

DivSigned(sg, q, e) == IF sg = 0 THEN <<0, 0>> ELSE <<sg * q[1], q[2] + e>>

\* a / b where b is zero or one of the two is not finite: a number that is
\* not zero over zero is an infinity with the sign of the number, zero over
\* zero and an infinity over an infinity are NaN, a finite number over an
\* infinity is zero.
DivNonFinite(a, b) ==
    IF a = NaN \/ b = NaN THEN NaN
    ELSE IF b[1] = 0 THEN (IF a[1] = 0 THEN NaN ELSE SignedInf(Sgn(a[1])))
    ELSE IF ~NonFinite(a) THEN <<0, 0>>
    ELSE IF NonFinite(b) THEN NaN
    ELSE SignedInf(Sgn(a[1]) * Sgn(b[1]))

\* f32 division.
fdiv(a, b) ==
    IF NonFinite(a) \/ NonFinite(b) \/ b[1] = 0 THEN DivNonFinite(a, b)
    ELSE DivSigned(Sgn(a[1]) * Sgn(b[1]), RatToF32(Abs(a[1]), Abs(b[1])),
                   a[2] - b[2])

RECURSIVE DoubleMod(_, _, _)
\* (r * 2^k) mod d.
DoubleMod(r, d, k) == IF k = 0 THEN r ELSE DoubleMod((2 * r) % d, d, k - 1)

\* The f32 remainder x % y of Rust (C's fmodf): exact, with the sign of x.
\* y is positive and finite; the remainder of an infinity or NaN is NaN.
frem(x, y) ==
    IF NonFinite(x) THEN NaN
    ELSE IF x[2] >= y[2]
    THEN Canon(Sgn(x[1]) * DoubleMod(Abs(x[1]) % y[1], y[1], x[2] - y[2]),
               y[2])
    ELSE IF BitLen(y[1]) + y[2] - x[2] > 25 THEN x
    ELSE Canon(Sgn(x[1]) * (Abs(x[1]) % (y[1] * 2 ^ (y[2] - x[2]))), x[2])

\* |a| < |b| where la and lb are the bit lengths of the mantissas: by the
\* leading bit, then by the 24-bit significands.
MagCmp(a, b, la, lb) ==
    IF la + a[2] # lb + b[2] THEN la + a[2] < lb + b[2]
    ELSE Abs(a[1]) * 2 ^ (MantBits - la) < Abs(b[1]) * 2 ^ (MantBits - lb)

\* |a| < |b| for a and b not zero.
MagLt(a, b) == MagCmp(a, b, BitLen(Abs(a[1])), BitLen(Abs(b[1])))

\* a < b, a <= b on f32; every comparison with NaN is false.
flt(a, b) ==
    IF a = NaN \/ b = NaN THEN FALSE
    ELSE IF Sgn(a[1]) # Sgn(b[1]) THEN Sgn(a[1]) < Sgn(b[1])
    ELSE IF a[1] > 0 THEN MagLt(a, b)
    ELSE IF a[1] < 0 THEN MagLt(b, a)
    ELSE FALSE

\* a == b on f32: NaN is equal to nothing, itself included.
feq(a, b) == a = b /\ a # NaN

fle(a, b) == feq(a, b) \/ flt(a, b)

\* f32::max and f32::min: of NaN and a number, the number.
fmax(a, b) == IF a = NaN \/ flt(a, b) THEN b ELSE a

fmin(a, b) == IF a = NaN \/ flt(b, a) THEN b ELSE a

\* The f32 of the integer n, |n| < 2^24.
I2F(n) == Canon(n, 0)

\* The f32 nearest to the decimal p / q, as a literal of the source is read.
Lit(p, q) == fdiv(I2F(p), I2F(q))

(***************************************************************************)
(* The f32 literals of the source                                          *)
(***************************************************************************)

F0 == <<0, 0>>

F1 == <<1, 0>>

F2 == <<1, 1>>

F3 == <<3, 0>>

F4 == <<1, 2>>

F6 == <<3, 1>>

FHalf == <<1, -1>>

F60 == <<15, 2>>

F180 == <<45, 2>>

F255 == <<255, 0>>

F360 == <<45, 3>>

F540 == <<135, 2>>

(***************************************************************************)
(* Angle utilities and clamping (color.rs, lines 854-884)                  *)
(***************************************************************************)

\* if t < 0.0 { t + 360.0 } else { t }, of the remainder t.
wrap_turn(t) == IF flt(t, F0) THEN fadd(t, F360) ELSE t

\* fn normalize_angle(t: f32) -> f32
normalize_angle(t) == wrap_turn(frem(t, F360))

\* The arc from a0 to a1 taken as the plain difference, the long way round
\* when the two are more than half a turn apart.
interp_delta_plain(a0, a1) == fsub(a1, a0)

\* let delta = ...: the signed arc interp_angle travels from a0 towards a1.
interp_delta(a0, a1) ==
    fsub(frem(fadd(frem(fsub(a1, a0), F360), F540), F360), F180)

\* interp_angle without the turn added before the remainder.
interp_angle_no_turn(a0, a1, t) ==
    frem(fadd(a0, fmul(t, interp_delta(a0, a1))), F360)

\* fn interp_angle(a0: f32, a1: f32, t: f32) -> f32
interp_angle(a0, a1, t) ==
    frem(fadd(fadd(a0, fmul(t, interp_delta(a0, a1))), F360), F360)

\* No clamping at all.
clamp_none(t) == t

\* fn clamp0_1(t: f32) -> f32
clamp0_1(t) == IF flt(t, F0) THEN F0 ELSE IF flt(F1, t) THEN F1 ELSE t

\* fn modulo(x: f32, n: f32) -> f32
modulo(x, n) == frem(fadd(frem(x, n), n), n)

(***************************************************************************)
(* The cylindrical model engine (color.rs, lines 710-852)                  *)
(***************************************************************************)

\* The four branches of hue_to_rgb, h being modulo(h, 6.0).
hue_ramp(n1, n2, h) ==
    IF flt(h, F1) THEN fadd(n1, fmul(fsub(n2, n1), h))
    ELSE IF flt(h, F3) THEN n2
    ELSE IF flt(h, F4) THEN fadd(n1, fmul(fsub(n2, n1), fsub(F4, h)))
    ELSE n1

\* fn hue_to_rgb(n1: f32, n2: f32, h: f32) -> f32
hue_to_rgb(n1, n2, h) == hue_ramp(n1, n2, modulo(h, F6))

\* let r, g, b = hue_to_rgb(n1, n2, h + 2.0), (.., h), (.., h - 2.0)
hsl_channels(n1, n2, h) ==
    << hue_to_rgb(n1, n2, fadd(h, F2)),
       hue_to_rgb(n1, n2, h),
       hue_to_rgb(n1, n2, fsub(h, F2)) >>

\* let n1 = 2.0 * l - n2; let h = h / 60.0
hsl_with_n2(h, l, n2) == hsl_channels(fsub(fmul(F2, l), n2), n2, fdiv(h, F60))

\* fn hsl_to_rgb(h: f32, s: f32, l: f32) -> (f32, f32, f32)
hsl_to_rgb(h, s, l) ==
    IF feq(s, F0) THEN <<l, l, l>>
    ELSE hsl_with_n2(h, l, IF flt(l, FHalf) THEN fmul(l, fadd(F1, s))
                           ELSE fsub(fadd(l, s), fmul(l, s)))

\* The pure hue p thinned: each channel * (1.0 - white - black) + white.
hwb_mix(p, k, white) ==
    << fadd(fmul(p[1], k), white),
       fadd(fmul(p[2], k), white),
       fadd(fmul(p[3], k), white) >>

\* The two branches of hwb_to_rgb, sum being white + black.
hwb_split(hue, white, black, sum) ==
    IF fle(F1, sum) THEN <<fdiv(white, sum), fdiv(white, sum), fdiv(white, sum)>>
    ELSE hwb_mix(hsl_to_rgb(hue, F1, FHalf), fsub(fsub(F1, white), black), white)

\* hwb_to_rgb without its gray branch: the pure hue thinned, always.
hwb_thinned(hue, white, black) ==
    hwb_mix(hsl_to_rgb(hue, F1, FHalf), fsub(fsub(F1, white), black), white)

\* fn hwb_to_rgb(hue: f32, white: f32, black: f32) -> (f32, f32, f32)
hwb_to_rgb(hue, white, black) == hwb_split(hue, white, black, fadd(white, black))

\* HSV read as if it were HSL already.
hsv_as_hsl(h, s, v) == <<h, s, v>>

\* The saturation and the triple hsv_to_hsl returns, l being computed.
hsv_with_l(h, s, v, l) ==
    << h,
       IF ~feq(l, F0)
       THEN IF feq(l, F1) THEN F0
            ELSE IF flt(l, FHalf) THEN fdiv(fmul(s, v), fmul(l, F2))
            ELSE fdiv(fmul(s, v), fsub(F2, fmul(l, F2)))
       ELSE s,
       l >>

\* fn hsv_to_hsl(h: f32, s: f32, v: f32) -> (f32, f32, f32)
hsv_to_hsl(h, s, v) == hsv_with_l(h, s, v, fdiv(fmul(fsub(F2, s), v), F2))

\* hsl_to_rgb(h, s, l) of the triple x.
hsl_triple_to_rgb(x) == hsl_to_rgb(x[1], x[2], x[3])

\* fn hsv_to_rgb(h: f32, s: f32, v: f32) -> (f32, f32, f32)
hsv_to_rgb(h, s, v) == hsl_triple_to_rgb(hsv_to_hsl(h, s, v))

\* The hue in sixths of a turn, from the channel that is the maximum.
hue_pick(r, g, max, dr, dg, db) ==
    IF feq(r, max) THEN fsub(db, dg)
    ELSE IF feq(g, max) THEN fsub(fadd(F2, dr), db)
    ELSE fsub(fadd(F4, dg), dr)

\* The hue (before normalisation) both rgb_to_hsv and rgb_to_hsl compute
\* from the channels, their maximum and their spread d.
hue_sextant(r, g, b, max, d) ==
    frem(fmul(hue_pick(r, g, max, fdiv(fsub(max, r), d),
                       fdiv(fsub(max, g), d), fdiv(fsub(max, b), d)),
              F60),
         F360)

\* The triple rgb_to_hsv returns, v being the maximum and d the spread.
hsv_of_spread(r, g, b, v, d) ==
    IF feq(d, F0) THEN <<F0, F0, v>>
    ELSE <<normalize_angle(hue_sextant(r, g, b, v, d)), fdiv(d, v), v>>

hsv_of_range(r, g, b, v, min) == hsv_of_spread(r, g, b, v, fsub(v, min))

\* fn rgb_to_hsv(r: f32, g: f32, b: f32) -> (f32, f32, f32)
rgb_to_hsv(r, g, b) ==
    hsv_of_range(r, g, b, fmax(r, fmax(g, b)), fmin(r, fmin(g, b)))

\* The triple rgb_to_hsl returns, l being the lightness and d the spread.
hsl_of_spread(r, g, b, min, max, l, d) ==
    IF feq(min, max) THEN <<F0, F0, l>>
    ELSE << normalize_angle(hue_sextant(r, g, b, max, d)),
            IF flt(l, FHalf) THEN fdiv(d, fadd(max, min))
            ELSE fdiv(d, fsub(fsub(F2, max), min)),
            l >>

\* hsl_of_range with the lightness max + min, not halved.
hsl_of_range_sum(r, g, b, min, max) ==
    hsl_of_spread(r, g, b, min, max, fadd(max, min), fsub(max, min))

hsl_of_range(r, g, b, min, max) ==
    hsl_of_spread(r, g, b, min, max, fdiv(fadd(max, min), F2), fsub(max, min))

\* fn rgb_to_hsl(r: f32, g: f32, b: f32) -> (f32, f32, f32)
rgb_to_hsl(r, g, b) ==
    hsl_of_range(r, g, b, fmin(r, fmin(g, b)), fmax(r, fmax(g, b)))

\* rgb_to_hwb with the largest channel itself given as the blackness.
rgb_to_hwb_max(r, g, b) ==
    << rgb_to_hsl(r, g, b)[1],
       fmin(r, fmin(g, b)),
       fmax(r, fmax(g, b)) >>

\* fn rgb_to_hwb(r: f32, g: f32, b: f32) -> (f32, f32, f32)
rgb_to_hwb(r, g, b) ==
    << rgb_to_hsl(r, g, b)[1],
       fmin(r, fmin(g, b)),
       fsub(F1, fmax(r, fmax(g, b))) >>

(***************************************************************************)
(* Gamma transfer and Oklab (color.rs, lines 94-102, 203-213, 370-408)     *)
(***************************************************************************)

\* The decimal literals of the gamma curve, as f32.
K_LIN_CUT == <<3361671, -30>>  \* 0.0031308

K_ENC_CUT == <<5429107, -27>>  \* 0.04045

K_1_055 == <<8849981, -23>>    \* 1.055

K_0_055 == <<7381975, -27>>    \* 0.055

K_12_92 == <<6773801, -19>>    \* 12.92

\* y^4.
powi4(y) == fmul(fmul(y, y), fmul(y, y))

RECURSIVE NewtonRoot(_, _, _, _)
RECURSIVE NewtonNext(_, _, _, _, _)
\* Newton's iteration y <- ((n - 1) * y + x / y^(n - 1)) / n for the n-th
\* root of x, carried out in f32 from a start above the root: the iterates
\* fall until they reach it (at most k steps are taken).
NewtonRoot(x, n, y, k) ==
    IF k = 0 THEN y
    ELSE NewtonNext(x, n, y, k,
             fdiv(fadd(fmul(I2F(n - 1), y),
                       fdiv(x, IF n = 2 THEN y
                               ELSE IF n = 3 THEN fmul(y, y)
                               ELSE powi4(y))),
                  I2F(n)))

\* The iterate z after y: taken while it is below y.
NewtonNext(x, n, y, k, z) ==
    IF ~flt(z, y) THEN y ELSE NewtonRoot(x, n, z, k - 1)

\* The power of two just above the n-th root of a number whose Top is t.
RootStart(t, n) ==
    <<1, IF t >= 0 THEN (t + n - 1) \div n ELSE -((-t) \div n)>>

\* An f32 near the n-th root of x > 0 (n is 2, 3 or 5): a first estimate,
\* a few units in the last place from the root.
froot(x, n) ==
    IF x[1] = 0 THEN F0 ELSE NewtonRoot(x, n, RootStart(Top(x), n), 40)

\* f32::powi(3).
powi3(x) == fmul(x, fmul(x, x))

\* x^5 from x and its square.
powi5(x, x2) == fmul(fmul(x2, x2), x)

\* A first estimate of x^(5/12): the cube root of the fourth root of x^5.
near_pow_5_12(x) == froot(froot(froot(powi5(x, fmul(x, x)), 2), 2), 3)

\* x^2 * r^2.
pow_2_root(x, r) == fmul(fmul(x, x), fmul(r, r))

\* A first estimate of x^(12/5): x^2 times the square of the fifth root.
near_pow_12_5(x) == pow_2_root(x, froot(x, 5))

\* The 24-bit significand N and the exponent E of x > 0: x = N * 2^E with
\* 2^23 <= N < 2^24.
Norm24(x) ==
    <<x[1] * 2 ^ (MantBits - BitLen(x[1])), x[2] - MantBits + BitLen(x[1])>>

\* The f32 just above the f32 y > 0.
FSucc(y) ==
    IF Norm24(y)[1] = 16777215 THEN <<1, Norm24(y)[2] + MantBits>>
    ELSE Canon(Norm24(y)[1] + 1, Norm24(y)[2])

\* The f32 just below the f32 y > 0.
FPred(y) ==
    IF Norm24(y)[1] = 8388608 THEN Canon(16777215, Norm24(y)[2] - 1)
    ELSE Canon(Norm24(y)[1] - 1, Norm24(y)[2])

\* Numbers of 48 bits, to tell on which side of an f32 a power falls:
\* <<a3, a2, a1, a0, e>> stands for (a3 * 4096^3 + a2 * 4096^2 + a1 * 4096
\* + a0) * 2^e, with a3 >= 2048.
WideOf(n) == <<n[1] \div 4096, n[1] % 4096, 0, 0, n[2] - MantBits>>

RECURSIVE WideNorm(_, _, _, _, _)
\* top * 4096^3 + d2 * 4096^2 + d1 * 4096 + d0, top holding 23 or 24 bits,
\* cut to 48 bits.
WideNorm(top, d2, d1, d0, e) ==
    IF top >= 8388608
    THEN <<top \div 4096, top % 4096, d2, d1, e + 12>>
    ELSE WideNorm(2 * top + (d2 \div 2048),
                  ((2 * d2) % 4096) + (d1 \div 2048),
                  ((2 * d1) % 4096) + (d0 \div 2048), (2 * d0) % 4096, e - 1)

WideCarry3(c6, s5, d1, d0, e) == WideNorm(c6 + (s5 \div 4096), s5 % 4096, d1, d0, e)

WideCarry2(c6, c5, s4, d0, e) ==
    WideCarry3(c6, c5 + (s4 \div 4096), s4 % 4096, d0, e)

WideCarry(c6, c5, c4, c3, e) ==
    WideCarry2(c6, c5, c4 + (c3 \div 4096), c3 % 4096, e)

\* The product of two 48-bit numbers, cut to 48 bits (the columns below
\* 4096^3 weigh less than 2^-44 of it and are left out).
WideMul(a, b) ==
    WideCarry(a[1] * b[1],
              a[1] * b[2] + a[2] * b[1],
              a[1] * b[3] + a[2] * b[2] + a[3] * b[1],
              a[1] * b[4] + a[2] * b[3] + a[3] * b[2] + a[4] * b[1],
              a[5] + b[5] + 36)

RECURSIVE WidePow(_, _)
\* a^n, n >= 1.
WidePow(a, n) == IF n = 1 THEN a ELSE WideMul(WidePow(a, n - 1), a)

\* X - Y in units of 4096 * 2^(the smaller exponent), sx and sy being the
\* two factors that align them; X and Y agree in their leading bits.
WideDiff(X, Y, sx, sy) ==
    ((sx * X[1] - sy * Y[1]) * 4096 + (sx * X[2] - sy * Y[2])) * 4096
    + (sx * X[3] - sy * Y[3])

\* (X - Y) / Y as an f32, for X and Y within a factor 1 + 2^-12 of one
\* another (their exponents differ by one at most).
WideGap(X, Y) ==
    fdiv(RoundTo24(IF X[5] > Y[5] THEN WideDiff(X, Y, 2, 1)
                   ELSE IF X[5] < Y[5] THEN WideDiff(X, Y, 1, 2)
                   ELSE WideDiff(X, Y, 1, 1),
                   0, FALSE),
         <<Y[1] * 4096 + Y[2], IF X[5] < Y[5] THEN 13 ELSE 12>>)

\* The natural logarithm of x > 0 to three decimals, in f32: with
\* x = m * 2^E, 1 <= m < 2, and z = (m - 1) / (m + 1), it is
\* E * ln 2 + 2 * (z + z^3 / 3 + z^5 / 5).
LnSeries(z, z2) ==
    fmul(F2, fmul(z, fadd(F1, fmul(z2, fadd(Lit(1, 3), fmul(z2, Lit(1, 5)))))))

LnOfNorm(E, z) ==
    fadd(fmul(I2F(E), Lit(693147, 1000000)), LnSeries(z, fmul(z, z)))

LnNear(x) ==
    LnOfNorm(Norm24(x)[2] + MantBits - 1,
             fdiv(fsub(Canon(Norm24(x)[1], 1 - MantBits), F1),
                  fadd(Canon(Norm24(x)[1], 1 - MantBits), F1)))

\* e - p / q as an f32, for an exponent e that is p / q rounded to f32.
PowSlip(e, p, q) ==
    fdiv(I2F(q * e[1] - p * 2 ^ (-e[2])), <<q, -e[2]>>)

\* The integer below the f32 v, |v| < 2^30.
FloorOf(v) ==
    IF v[2] >= 0 THEN v[1] * 2 ^ v[2]
    ELSE IF -v[2] > 30 THEN (IF v[1] < 0 THEN -1 ELSE 0)
    ELSE v[1] \div (2 ^ (-v[2]))

\* The f32 values a library may return for a power that lies fr / 64 of a
\* unit in the last place above the f32 base: a result is within one unit
\* of the power, so it is the f32 below it or the one above; where the
\* power is too near an f32 to tell the side (within 4 / 64 of a unit), the
\* three f32 around it.
PowAround(base, fr) ==
    IF fr < 4 THEN {FPred(base), base, FSucc(base)}
    ELSE IF fr >= 60 THEN {base, FSucc(base), FSucc(FSucc(base))}
    ELSE {base, FSucc(base)}

\* The same for the power V * 2^E, V holding 29 to 31 bits: its leading 24
\* bits are the f32 below it.
PowOfUnits(V, E) ==
    IF V < 536870912 THEN PowAround(Canon((2 * V) \div 64, E + 5), (2 * V) % 64)
    ELSE IF V >= 1073741824 THEN PowAround(Canon(V \div 128, E + 7), (V \div 2) % 64)
    ELSE PowAround(Canon(V \div 64, E + 6), V % 64)

\* y0 * (1 + corr) in 64ths of the unit in the last place of y0 = n.
PowCorrected(n, corr) ==
    PowOfUnits(n[1] * 64 + FloorOf(fmul(Canon(n[1], 6), corr)), n[2] - 6)

\* The f32 values a library may return for x^(p / q + slip), x > 0, from
\* the estimate y0 of x^(p / q): one Newton step in 48 bits,
\* y0 * (1 + (x^p - y0^q) / (q * y0^q)), gives x^(p / q) to 2^-30, and
\* x^slip is 1 + slip * ln x.
PowNear(x, y0, p, q, slip) ==
    PowCorrected(Norm24(y0),
                 fadd(fdiv(WideGap(WidePow(WideOf(Norm24(x)), p),
                                   WidePow(WideOf(Norm24(y0)), q)),
                           I2F(q)),
                      IF slip[1] = 0 THEN F0 ELSE fmul(slip, LnNear(x))))

\* The literal 2.4 as f32.
K_2_4 == Lit(12, 5)

\* f32::powf(x, e) of the platform's library, whose last bit Rust leaves
\* open: the set of the values it may return.  e is 2.4 or 1.0 / 2.4, the
\* two exponents of the program.
powf(x, e) ==
    IF x = NaN THEN {NaN}
    ELSE IF x = F1 THEN {F1}
    ELSE IF NonFinite(x) THEN {Inf}
    ELSE IF x[1] < 0 THEN {NaN}
    ELSE IF x[1] = 0 THEN {x}
    ELSE IF e = K_2_4
    THEN PowNear(x, near_pow_12_5(x), 12, 5, PowSlip(e, 12, 5))
    ELSE PowNear(x, near_pow_5_12(x), 5, 12, PowSlip(e, 5, 12))

\* The candidates s for the cube root of x, or the root itself where one of
\* them is it: y with y^3 = x, the cube of a significand below 2^8 being an
\* exact product.
CubeRootAmong(x, s) ==
    IF \E y \in s : y[1] < 256 /\ powi3(y) = x
    THEN {y \in s : y[1] < 256 /\ powi3(y) = x}
    ELSE s

\* The values a library may return for the cube root of x > 0.
CbrtNear(x) == CubeRootAmong(x, PowNear(x, froot(x, 3), 1, 3, F0))

\* f32::cbrt(x) of the platform's library: the set of the values it may
\* return, the real cube root of either sign.
cbrt(x) ==
    IF NonFinite(x) \/ x[1] = 0 THEN {x}
    ELSE IF x[1] < 0 THEN {fneg(y) : y \in CbrtNear(fneg(x))}
    ELSE CbrtNear(x)

\* fn from_linear(x: f32) -> f32, local to from_linear_rgba: the values it
\* may return, one for each value of powf.
from_linear(x) ==
    IF fle(K_LIN_CUT, x)
    THEN {fsub(fmul(K_1_055, y), K_0_055) : y \in powf(x, fdiv(F1, K_2_4))}
    ELSE {fmul(K_12_92, x)}

\* fn to_linear(x: f32) -> f32, local to to_linear_rgba: the values it may
\* return, one for each value of powf.
to_linear(x) ==
    IF fle(K_ENC_CUT, x)
    THEN powf(fdiv(fadd(x, K_0_055), K_1_055), K_2_4)
    ELSE {fdiv(x, K_12_92)}

\* The coefficients of a and b in l_, m_ and s_ of from_oklaba, as f32, row by
\* row (the sign is applied where the source applies it).
M_LAB_LMS ==
    << <<13298889, -25>>,   \* 0.3963377774
       <<14482345, -26>>,   \* 0.2158037573
       <<3542051, -25>>,    \* 0.1055613458
       <<4285181, -26>>,    \* 0.0638541728
       <<12010363, -27>>,   \* 0.0894841775
       <<5416883, -22>>     \* 1.2914855480
    >>

\* The coefficients of l_, m_ and s_ in r, g and b of from_oklaba, as f32,
\* row by row (the sign is applied where the source applies it).
M_LMS_RGB ==
    << <<8549511, -21>>,    \* 4.0767245293
       <<13871473, -22>>,   \* 3.3072168827
       <<7742989, -25>>,    \* 0.2307590544
       <<10637961, -23>>,   \* 1.2681437731
       <<10944333, -22>>,   \* 2.6093323231
       <<2861643, -23>>,    \* 0.3411344290
       <<2207607, -29>>,    \* 0.0041119885
       <<5901187, -23>>,    \* 0.7034763098
       <<14318201, -23>>    \* 1.7068625689
    >>

\* The coefficients of r, g and b in l_, m_ and s_ of to_oklaba, as f32, row
\* by row.
M_RGB_LMS ==
    << <<13829983, -25>>,   \* 0.4121656120
       <<8997205, -24>>,    \* 0.5362752080
       <<13813035, -28>>,   \* 0.0514575653
       <<1777203, -23>>,    \* 0.2118591070
       <<11420569, -24>>,   \* 0.6807189584
       <<14415867, -27>>,   \* 0.1074065790
       <<2963185, -25>>,    \* 0.0883097947
       <<4728615, -24>>,    \* 0.2818474174
       <<10574031, -24>>    \* 0.6302613616
    >>

\* The coefficients of l_, m_ and s_ in l, a and b of to_oklaba, as f32, row
\* by row (the sign is applied where the source applies it).
M_LMS_LAB ==
    << <<7061673, -25>>,    \* 0.2104542553
       <<13314697, -24>>,   \* 0.7936177850
       <<4372327, -30>>,    \* 0.0040720468
       <<8296327, -22>>,    \* 1.9779984951
       <<5093127, -21>>,    \* 2.4285922050
       <<1889927, -22>>,    \* 0.4505937099
       <<3476781, -27>>,    \* 0.0259040371
       <<13132731, -24>>,   \* 0.7827717662
       <<423979, -19>>      \* 0.8086757660
    >>

(***************************************************************************)
(* The Color value: constructors (color.rs, lines 30-213)                  *)
(***************************************************************************)

\* pub struct Color { r, g, b, a }
Color(r, g, b, a) == [r |-> r, g |-> g, b |-> b, a |-> a]

\* impl Default for Color
DefaultColor == Color(F0, F0, F0, F1)

\* pub fn from_rgba(r, g, b, a) -> Color
from_rgba(r, g, b, a) == Color(r, g, b, a)

\* pub fn from_rgb(r, g, b) -> Color
from_rgb(r, g, b) == Color(r, g, b, F1)

\* pub fn from_rgb_u8(r: u8, g: u8, b: u8) -> Color
from_rgb_u8(r, g, b) ==
    Color(fdiv(I2F(r), F255), fdiv(I2F(g), F255), fdiv(I2F(b), F255), F1)

\* pub fn from_rgba_u8(r: u8, g: u8, b: u8, a: u8) -> Color
from_rgba_u8(r, g, b, a) ==
    Color(fdiv(I2F(r), F255), fdiv(I2F(g), F255), fdiv(I2F(b), F255),
          fdiv(I2F(a), F255))

\* from_linear_rgba with the alpha clamped as from_hsva clamps it.
from_linear_rgba_clamped(r, g, b, a) ==
    {from_rgba(x, y, z, clamp0_1(a)) :
         x \in from_linear(r), y \in from_linear(g), z \in from_linear(b)}

\* pub fn from_linear_rgba(r, g, b, a) -> Color: the colours it may return.
from_linear_rgba(r, g, b, a) ==
    {from_rgba(x, y, z, a) :
         x \in from_linear(r), y \in from_linear(g), z \in from_linear(b)}

\* Color::from_rgba(clamp0_1(r), clamp0_1(g), clamp0_1(b), a) of the
\* triple x.
from_clamped_rgb(x, a) ==
    from_rgba(clamp0_1(x[1]), clamp0_1(x[2]), clamp0_1(x[3]), a)

\* pub fn from_hsva(h, s, v, a) -> Color
from_hsva(h, s, v, a) ==
    from_clamped_rgb(hsv_to_rgb(normalize_angle(h), clamp0_1(s), clamp0_1(v)),
                     clamp0_1(a))

\* pub fn from_hsla(h, s, l, a) -> Color
from_hsla(h, s, l, a) ==
    from_clamped_rgb(hsl_to_rgb(normalize_angle(h), clamp0_1(s), clamp0_1(l)),
                     clamp0_1(a))

\* pub fn from_hwba(h, w, b, a) -> Color: alpha is passed on as given.
from_hwba(h, w, b, a) ==
    from_clamped_rgb(hwb_to_rgb(normalize_angle(h), clamp0_1(w), clamp0_1(b)),
                     a)

\* let r, g, b = ...; Color::from_linear_rgba(r, g, b, alpha), of the cubes
\* l_, m_ and s_.
from_lms(l_, m_, s_, alpha) ==
    from_linear_rgba(
        fadd(fsub(fmul(M_LMS_RGB[1], l_), fmul(M_LMS_RGB[2], m_)), fmul(M_LMS_RGB[3], s_)),
        fsub(fadd(fmul(fneg(M_LMS_RGB[4]), l_), fmul(M_LMS_RGB[5], m_)), fmul(M_LMS_RGB[6], s_)),
        fadd(fsub(fmul(fneg(M_LMS_RGB[7]), l_), fmul(M_LMS_RGB[8], m_)), fmul(M_LMS_RGB[9], s_)),
        alpha)

\* pub fn from_oklaba(l, a, b, alpha) -> Color: the colours it may return.
from_oklaba(l, a, b, alpha) ==
    from_lms(powi3(fadd(fadd(l, fmul(M_LAB_LMS[1], a)), fmul(M_LAB_LMS[2], b))),
             powi3(fsub(fsub(l, fmul(M_LAB_LMS[3], a)), fmul(M_LAB_LMS[4], b))),
             powi3(fsub(fsub(l, fmul(M_LAB_LMS[5], a)), fmul(M_LAB_LMS[6], b))),
             alpha)

(***************************************************************************)
(* The Color value: accessors (color.rs, lines 315-408)                    *)
(***************************************************************************)

\* n / d to the nearest integer, halves up, saturated at 255.
round_div(n, d) ==
    IMin(255, n \div d + (IF 2 * (n % d) >= d THEN 1 ELSE 0))

\* x.round() as u8: to the nearest integer, halves away from zero, then
\* saturated to 0..255.
round_u8(x) ==
    IF x[1] <= 0 THEN 0
    ELSE IF x[2] >= 0 THEN (IF Top(x) > 8 THEN 255 ELSE x[1] * 2 ^ x[2])
    ELSE IF -x[2] > 30 THEN 0
    ELSE round_div(x[1], 2 ^ (-x[2]))

\* pub fn rgba(&self) -> (f32, f32, f32, f32)
rgba(c) == <<c.r, c.g, c.b, c.a>>

\* pub fn rgba_u8(&self) -> (u8, u8, u8, u8)
rgba_u8(c) ==
    << round_u8(fmul(c.r, F255)), round_u8(fmul(c.g, F255)),
       round_u8(fmul(c.b, F255)), round_u8(fmul(c.a, F255)) >>

\* The triple x with the alpha a.
with_alpha(x, a) == <<x[1], x[2], x[3], a>>

\* pub fn to_hsva(&self) -> (f32, f32, f32, f32)
to_hsva(c) == with_alpha(rgb_to_hsv(c.r, c.g, c.b), c.a)

\* pub fn to_hsla(&self) -> (f32, f32, f32, f32)
to_hsla(c) == with_alpha(rgb_to_hsl(c.r, c.g, c.b), c.a)

\* pub fn to_hwba(&self) -> (f32, f32, f32, f32)
to_hwba(c) == with_alpha(rgb_to_hwb(c.r, c.g, c.b), c.a)

\* to_linear_rgba without the gamma decoding: the channels as they are stored.
to_linear_rgba_encoded(c) == {rgba(c)}

\* pub fn to_linear_rgba(&self) -> (f32, f32, f32, f32): the tuples it may
\* return.
to_linear_rgba(c) ==
    {<<r, g, b, c.a>> :
         r \in to_linear(c.r), g \in to_linear(c.g), b \in to_linear(c.b)}

\* let l, a, b = ...; (l, a, b, self.a), of the cube roots l_, m_ and s_.
lab_of_lms(l_, m_, s_, alpha) ==
    << fsub(fadd(fmul(M_LMS_LAB[1], l_), fmul(M_LMS_LAB[2], m_)), fmul(M_LMS_LAB[3], s_)),
       fadd(fsub(fmul(M_LMS_LAB[4], l_), fmul(M_LMS_LAB[5], m_)), fmul(M_LMS_LAB[6], s_)),
       fsub(fadd(fmul(M_LMS_LAB[7], l_), fmul(M_LMS_LAB[8], m_)), fmul(M_LMS_LAB[9], s_)),
       alpha >>

\* let l_, m_, s_ = (...).cbrt(), of the linear-light channels x.
lms_of_linear(x) ==
    {lab_of_lms(l_, m_, s_, x[4]) :
        l_ \in cbrt(fadd(fadd(fmul(M_RGB_LMS[1], x[1]), fmul(M_RGB_LMS[2], x[2])), fmul(M_RGB_LMS[3], x[3]))),
        m_ \in cbrt(fadd(fadd(fmul(M_RGB_LMS[4], x[1]), fmul(M_RGB_LMS[5], x[2])), fmul(M_RGB_LMS[6], x[3]))),
        s_ \in cbrt(fadd(fadd(fmul(M_RGB_LMS[7], x[1]), fmul(M_RGB_LMS[8], x[2])), fmul(M_RGB_LMS[9], x[3])))}

\* pub fn to_oklaba(&self) -> (f32, f32, f32, f32): the tuples it may
\* return.
to_oklaba(c) == UNION {lms_of_linear(x) : x \in to_linear_rgba(c)}

(***************************************************************************)
(* Outbound formatting (color.rs, lines 410-430)                           *)
(***************************************************************************)

\* One decimal digit, one lowercase hexadecimal digit.
Digit(d) == SubSeq("0123456789", d + 1, d + 1)

HexDigit(d) == SubSeq("0123456789abcdef", d + 1, d + 1)

\* format!("{:02x}", n) of a u8.
Hex2(n) == HexDigit(n \div 16) \o HexDigit(n % 16)

RECURSIVE Dec(_)
\* format!("{}", n) of an unsigned integer.
Dec(n) == IF n < 10 THEN Digit(n) ELSE Dec(n \div 10) \o Digit(n % 10)

\* Natural numbers of any size, for the digits of an f32: the sequence of
\* the decimal digits, the units first, zeros allowed at the top.
RECURSIVE BigOfInt(_)
BigOfInt(n) == IF n < 10 THEN <<n>> ELSE <<n % 10>> \o BigOfInt(n \div 10)

\* The digit of d at 10^(i - 1), and the four digits from there as a number.
BigDigit(d, i) == IF i <= Len(d) THEN d[i] ELSE 0

BigFour(d, i) ==
    BigDigit(d, i) + 10 * BigDigit(d, i + 1) + 100 * BigDigit(d, i + 2)
    + 1000 * BigDigit(d, i + 3)

FourOf(t) == <<t % 10, (t \div 10) % 10, (t \div 100) % 10, (t \div 1000) % 10>>

RECURSIVE BigTimes(_, _, _, _)
\* d * k for k below 2^17, four digits at a time from the digit at i.
BigTimes(d, k, i, carry) ==
    IF i > Len(d) THEN (IF carry = 0 THEN <<>> ELSE BigOfInt(carry))
    ELSE FourOf(BigFour(d, i) * k + carry)
         \o BigTimes(d, k, i + 4, (BigFour(d, i) * k + carry) \div 10000)

RECURSIVE BigScale(_, _, _)
\* d * k^n for k at most 5, seven factors at a time while there are seven.
BigScale(d, k, n) ==
    IF n = 0 THEN d
    ELSE IF n >= 7 THEN BigScale(BigTimes(d, k ^ 7, 1, 0), k, n - 7)
    ELSE BigScale(BigTimes(d, k, 1, 0), k, n - 1)

\* The number of digits of d without the zeros at the top.
BigLen(d) ==
    IF \A i \in 1..Len(d) : d[i] = 0 THEN 0
    ELSE CHOOSE i \in 1..Len(d) :
             d[i] # 0 /\ \A t \in (i + 1)..Len(d) : d[t] = 0

\* a < b when strict, a <= b otherwise: decided at the highest digit where
\* they differ, D being the places where they do.
BigDiffer(a, b) ==
    {i \in 1..(Len(a) + Len(b)) : BigDigit(a, i) # BigDigit(b, i)}

BigLess(a, b, D, strict) ==
    IF D = {} THEN ~strict
    ELSE \E i \in D : BigDigit(a, i) < BigDigit(b, i) /\ \A t \in D : t <= i

BigWithin(a, b, strict) == BigLess(a, b, BigDiffer(a, b), strict)

\* 10^Len(r) - r.
BigCompl(r) ==
    [i \in 1..(Len(r) + 1) |->
        IF i > Len(r) THEN (IF \A t \in 1..Len(r) : r[t] = 0 THEN 1 ELSE 0)
        ELSE IF \A t \in 1..(i - 1) : r[t] = 0 THEN (10 - r[i]) % 10
        ELSE 9 - r[i]]

\* The multiple of 10^j just below d, or the next one when up.
BigRound(d, j, up) ==
    [i \in 1..(Len(d) + 1) |->
        IF i <= j THEN 0
        ELSE IF up /\ \A t \in (j + 1)..(i - 1) : BigDigit(d, t) = 9
        THEN (BigDigit(d, i) + 1) % 10
        ELSE BigDigit(d, i)]

RECURSIVE BigStr(_, _, _)
\* The digits of d from 10^(hi - 1) down to 10^(lo - 1).
BigStr(d, hi, lo) ==
    IF hi < lo THEN ""
    ELSE IF hi = lo THEN Digit(BigDigit(d, hi))
    ELSE BigStr(d, hi, (hi + lo) \div 2 + 1) \o BigStr(d, (hi + lo) \div 2, lo)

\* The shortest digits of x = A / 10^P that read back as x. An f32 reads back
\* as x from anything less than half a step away, and from exactly half a
\* step when incl (the mantissa of x is even); below and above are the half
\* steps in units of 10^-P. With r the digits of A under 10^j, the multiple
\* of 10^j just below x reads back iff r is within below, and the one just
\* above iff 10^j - r is within above.
ReadsBelow(r, below, incl) == BigWithin(r, below, ~incl)

ReadsAbove(r, above, incl) == BigWithin(BigCompl(r), above, ~incl)

\* The largest j for which a multiple of 10^j reads back as x, S being the
\* places from 1 for which one does.
ShortestAmong(S) == IF S = {} THEN 0 ELSE CHOOSE j \in S : \A t \in S : t <= j

ShortestPlaces(A, below, above, incl) ==
    ShortestAmong({t \in 1..Len(A) :
                      \/ ReadsBelow(SubSeq(A, 1, t), below, incl)
                      \/ ReadsAbove(SubSeq(A, 1, t), above, incl)})

\* The multiple above is taken when only it reads back, and when both do
\* and it is at least as near to x as the one below.
ShortestUp(r, below, above, incl) ==
    ReadsAbove(r, above, incl)
    /\ (~ReadsBelow(r, below, incl) \/ BigWithin(BigCompl(r), r, FALSE))

\* Y / 10^P in plain notation, Y a multiple of 10^j: the whole part, then
\* the decimal places down to 10^j.
FmtPlaces(Y, P, j) ==
    (IF BigLen(Y) > P THEN BigStr(Y, BigLen(Y), P + 1) ELSE "0")
    \o (IF j >= P THEN "" ELSE "." \o BigStr(Y, P, j + 1))

FmtShortest(A, below, above, incl, P, j) ==
    FmtPlaces(BigRound(A, j, ShortestUp(SubSeq(A, 1, j), below, above, incl)),
              P, j)

\* The shortest decimal of N * 2^E = 4 * N * k^n / 10^P, 2^23 <= N < 2^24:
\* the step to the next f32 is 4 * k^n, and the step to the one before is
\* taken as half of it when N is 2^23.
FmtScaled(N, k, n, P) ==
    FmtShortest(BigScale(BigOfInt(4 * N), k, n),
                BigScale(<<IF N = 8388608 THEN 1 ELSE 2>>, k, n),
                BigScale(<<2>>, k, n), N % 2 = 0, P,
                ShortestPlaces(BigScale(BigOfInt(4 * N), k, n),
                               BigScale(<<IF N = 8388608 THEN 1 ELSE 2>>, k, n),
                               BigScale(<<2>>, k, n), N % 2 = 0))

\* k^n is 2^(E - 2), or 5^(2 - E) with 2 - E decimal places.
FmtNorm(n) ==
    IF n[2] >= 2 THEN FmtScaled(n[1], 2, n[2] - 2, 0)
    ELSE FmtScaled(n[1], 5, 2 - n[2], 2 - n[2])

\* format!("{}", x) of an f32: plain decimal notation, the shortest digits
\* that read back as x, no fraction for a whole number.
FmtF32(x) ==
    IF NonFinite(x)
    THEN (IF x[1] = 0 THEN "NaN" ELSE IF x[1] < 0 THEN "-inf" ELSE "inf")
    ELSE IF x[1] = 0 THEN "0"
    ELSE (IF x[1] < 0 THEN "-" ELSE "") \o FmtNorm(Norm24(<<Abs(x[1]), x[2]>>))

\* format!("#{:02x}{:02x}{:02x}", r, g, b), with {:02x} of a when alpha.
hex_of_bytes(u, alpha) ==
    "#" \o Hex2(u[1]) \o Hex2(u[2]) \o Hex2(u[3])
    \o (IF alpha THEN Hex2(u[4]) ELSE "")

\* if a < 255, of the bytes u.
hex_of_rgba_u8(u) == hex_of_bytes(u, u[4] < 255)

\* to_hex_string with the test of to_rgb_string: the alpha byte is written
\* whenever the alpha field is below 1.0.
to_hex_string_raw_alpha(c) == hex_of_bytes(rgba_u8(c), flt(c.a, F1))

\* pub fn to_hex_string(&self) -> String
to_hex_string(c) == hex_of_rgba_u8(rgba_u8(c))

\* format!("rgba({},{},{},{})", r, g, b, self.a) when alpha, and
\* format!("rgb({},{},{})", r, g, b) otherwise.
rgb_of_bytes(u, a, alpha) ==
    IF alpha
    THEN "rgba(" \o Dec(u[1]) \o "," \o Dec(u[2]) \o "," \o Dec(u[3])
         \o "," \o FmtF32(a) \o ")"
    ELSE "rgb(" \o Dec(u[1]) \o "," \o Dec(u[2]) \o "," \o Dec(u[3]) \o ")"

\* if a < 255, of the bytes u.
rgb_of_rgba_u8(u, a) == rgb_of_bytes(u, a, u[4] < 255)

\* to_rgb_string with the test of to_hex_string: the alpha is written
\* whenever its byte is below 255.
to_rgb_string_by_byte(c) == rgb_of_rgba_u8(rgba_u8(c), c.a)

\* pub fn to_rgb_string(&self) -> String
to_rgb_string(c) == rgb_of_bytes(rgba_u8(c), c.a, flt(c.a, F1))

(***************************************************************************)
(* Interpolation (color.rs, lines 432-476)                                 *)
(***************************************************************************)

\* a + t * (b - a), as every interpolation writes it.
lerp(a, b, t) == fadd(a, fmul(t, fsub(b, a)))

\* interpolate_rgb started from the other colour.
interpolate_rgb_from_other(c1, c2, t) ==
    Color(lerp(c2.r, c1.r, t), lerp(c2.g, c1.g, t), lerp(c2.b, c1.b, t),
          lerp(c2.a, c1.a, t))

\* pub fn interpolate_rgb(&self, other: &Color, t: f32) -> Color
interpolate_rgb(c1, c2, t) ==
    Color(lerp(c1.r, c2.r, t), lerp(c1.g, c2.g, t), lerp(c1.b, c2.b, t),
          lerp(c1.a, c2.a, t))

\* Color::from_linear_rgba(r1 + t * (r2 - r1), ...) of the two tuples.
blend_linear_rgba(x, y, t) ==
    from_linear_rgba(lerp(x[1], y[1], t), lerp(x[2], y[2], t),
                     lerp(x[3], y[3], t), lerp(x[4], y[4], t))

\* pub fn interpolate_linear_rgb(&self, other: &Color, t: f32) -> Color
interpolate_linear_rgb(c1, c2, t) ==
    UNION {blend_linear_rgba(x, y, t) :
               x \in to_linear_rgba(c1), y \in to_linear_rgba(c2)}

\* Color::from_hsva(interp_angle(h1, h2, t), s1 + t * (s2 - s1), ...) of
\* the two tuples.
blend_hsva(x, y, t) ==
    from_hsva(interp_angle(x[1], y[1], t), lerp(x[2], y[2], t),
              lerp(x[3], y[3], t), lerp(x[4], y[4], t))

\* pub fn interpolate_hsv(&self, other: &Color, t: f32) -> Color
interpolate_hsv(c1, c2, t) == blend_hsva(to_hsva(c1), to_hsva(c2), t)

\* Color::from_oklaba(l1 + t * (l2 - l1), ...) of the two tuples.
blend_oklaba(x, y, t) ==
    from_oklaba(lerp(x[1], y[1], t), lerp(x[2], y[2], t),
                lerp(x[3], y[3], t), lerp(x[4], y[4], t))

\* pub fn interpolate_oklab(&self, other: &Color, t: f32) -> Color
interpolate_oklab(c1, c2, t) ==
    UNION {blend_oklaba(x, y, t) : x \in to_oklaba(c1), y \in to_oklaba(c2)}

(***************************************************************************)
(* The program as a state machine                                          *)
(*                                                                         *)
(* A caller holds one Color c.  made is the constructor call that built    *)
(* it, op the last call made since (a method of c, a constructor fed with  *)
(* what a method returned, or one of the free angle functions) and out     *)
(* what that call returned.  fn is the name of the function called and in  *)
(* the tuple of its arguments.  Every function is pure, so a run builds    *)
(* one colour, makes one call, and may feed what a to_ accessor returned   *)
(* to the matching constructor: further calls would repeat these.          *)
(***************************************************************************)

VARIABLES c, made, op, out

vars == <<c, made, op, out>>

Call(fn, in) == [fn |-> fn, in |-> in]

NoCall == Call("none", <<>>)

Init ==
    /\ c = DefaultColor
    /\ made = Call("default", <<>>)
    /\ op = NoCall
    /\ out = <<>>

\* No colour is built yet; no call is made yet on the colour held.
Unbuilt == made.fn = "default" /\ op = NoCall

Idle == op = NoCall

\* A constructor returns the colour the caller holds from now on.
Built(fn, in, col) ==
    /\ c' = col
    /\ made' = Call(fn, in)
    /\ op' = NoCall
    /\ out' = <<>>

\* Any other call leaves the colour alone and returns ret.
Returned(fn, in, ret) ==
    /\ op' = Call(fn, in)
    /\ out' = ret
    /\ UNCHANGED <<c, made>>

(***************************************************************************)
(* Inputs                                                                  *)
(***************************************************************************)

\* Whole angles are multiples of 15 degrees up to NormSteps steps either
\* side of zero for normalize_angle, multiples of 45 degrees up to ArcSteps
\* steps for interp_angle.
NormSteps == 77

ArcSteps == 10

\* The turns a normalised angle is compared across.
Turns == 2

\* Two angles a hair either side of zero: -2^-17 and 2^-17 degrees.
TinyAngles == {<<-1, -17>>, <<1, -17>>}

NormAngles == {I2F(15 * k) : k \in -NormSteps..NormSteps} \cup TinyAngles

\* Angles that are not whole, and whole angles so large that adding a turn
\* to them is rounded: 0.5, 8000.5, 2^27 and 2^30 degrees.
FarAngles == {<<1, -1>>, <<16001, -1>>, <<1, 27>>, <<1, 30>>}

ArcAngles ==
    {I2F(45 * k) : k \in -ArcSteps..ArcSteps} \cup TinyAngles \cup FarAngles

\* Interpolation parameters, inside and outside [0, 1].
Params == {fneg(FHalf), F0, Lit(1, 4), FHalf, F1, F2}

\* Channel values inside [0, 1], and with values outside it; 1023/1024 is an
\* alpha below 1.0 whose byte is 255.
Unit == {F0, Lit(1, 5), FHalf, Lit(3, 5), F1}

Wide == Unit \cup {fneg(FHalf), <<1023, -10>>, F2}

Few == {fneg(FHalf), F0, Lit(1, 5), F1, F2}

\* Alphas of from_rgba: those, -2^27, a whole number past 2^24 whose
\* shortest decimal has fewer digits than the number itself, and the f32
\* nearest to 0.00001, which lies below it.
Alphas == Wide \cup {<<-1, 27>>, Lit(1, 100000)}

\* Hues inside [0, 360) and outside it.
Hues == {F0, I2F(30), I2F(77), I2F(120), F180, Lit(401, 2), I2F(300),
         I2F(359), I2F(-90), I2F(400)}

\* Saturation, lightness and value; whiteness and blackness.
Sats == {fneg(FHalf), F0, Lit(1, 5), FHalf, F1, F2}

Whites == {fneg(FHalf), F0, Lit(1, 10), Lit(1, 5), Lit(9, 20), Lit(49, 100),
           Lit(499, 1000), Lit(4999, 10000), FHalf, Lit(9, 10), F1, F2}

\* Channel levels and lightnesses, in [0, 1] and outside it.
Levels == {fneg(FHalf), F0, <<1, -17>>, Lit(1, 5), Lit(1, 3), FHalf,
           Lit(3, 5), <<1023, -10>>, F1, F2, F255}

\* Oklab lightness and the two opponent axes.
Lights == {F0, FHalf, F1, F2}

Axes == {fneg(FHalf), F0, Lit(1, 5)}

\* Bytes: 51/255 is 0.2 and 153/255 is 0.6.
Bytes == {0, 51, 153, 255}

\* The colours a colour is blended with.
Others == { from_rgba_u8(153, 51, 0, 255), from_rgba_u8(51, 153, 255, 0),
            from_rgba_u8(255, 255, 255, 153) }

(***************************************************************************)
(* Actions: one per function called                                        *)
(***************************************************************************)

NormalizeAngle ==
    /\ Idle
    /\ \E t \in NormAngles :
        Returned("normalize_angle", <<t>>, normalize_angle(t))

InterpAngle ==
    /\ Idle
    /\ \E a0 \in ArcAngles, a1 \in ArcAngles, t \in Params :
        Returned("interp_angle", <<a0, a1, t>>, interp_angle(a0, a1, t))

RgbToHsl ==
    /\ Unbuilt
    /\ \E r \in Levels, g \in Levels, b \in Levels :
        Returned("rgb_to_hsl", <<r, g, b>>, rgb_to_hsl(r, g, b))

HslToRgb ==
    /\ Unbuilt
    /\ \E h \in Hues, s \in Sats, l \in Levels :
        Returned("hsl_to_rgb", <<h, s, l>>, hsl_to_rgb(h, s, l))

HwbToRgb ==
    /\ Unbuilt
    /\ \E hue \in Hues, white \in Whites, black \in Whites :
        Returned("hwb_to_rgb", <<hue, white, black>>,
                 hwb_to_rgb(hue, white, black))

FromRgb ==
    /\ Unbuilt
    /\ \E r \in Wide, g \in Wide, b \in Wide :
        Built("from_rgb", <<r, g, b>>, from_rgb(r, g, b))

FromRgba ==
    /\ Unbuilt
    /\ \E r \in Wide, g \in Wide, b \in Wide, a \in Alphas :
        Built("from_rgba", <<r, g, b, a>>, from_rgba(r, g, b, a))

FromRgbaU8 ==
    /\ Unbuilt
    /\ \E r \in Bytes, g \in Bytes, b \in Bytes, a \in Bytes :
        Built("from_rgba_u8", <<r, g, b, a>>, from_rgba_u8(r, g, b, a))

FromRgbU8 ==
    /\ Unbuilt
    /\ \E r \in Bytes, g \in Bytes, b \in Bytes :
        Built("from_rgb_u8", <<r, g, b>>, from_rgb_u8(r, g, b))

FromLinearRgba ==
    /\ Unbuilt
    /\ \E r \in Few, g \in Few, b \in Few, a \in Few :
        \E v \in from_linear_rgba(r, g, b, a) :
            Built("from_linear_rgba", <<r, g, b, a>>, v)

FromHsla ==
    /\ Unbuilt
    /\ \E h \in Hues, s \in Sats, l \in Sats, a \in Few :
        Built("from_hsla", <<h, s, l, a>>, from_hsla(h, s, l, a))

FromHsva ==
    /\ Unbuilt
    /\ \E h \in Hues, s \in Sats, v \in Sats, a \in Few :
        Built("from_hsva", <<h, s, v, a>>, from_hsva(h, s, v, a))

FromHwba ==
    /\ Unbuilt
    /\ \E h \in Hues, w \in Whites, b \in Whites, a \in Few :
        Built("from_hwba", <<h, w, b, a>>, from_hwba(h, w, b, a))

FromOklaba ==
    /\ Unbuilt
    /\ \E l \in Lights, a \in Axes, b \in Axes, alpha \in Few :
        \E v \in from_oklaba(l, a, b, alpha) :
            Built("from_oklaba", <<l, a, b, alpha>>, v)

ToHsla == Idle /\ Returned("to_hsla", <<>>, to_hsla(c))

ToHsva == Idle /\ Returned("to_hsva", <<>>, to_hsva(c))

ToHwba == Idle /\ Returned("to_hwba", <<>>, to_hwba(c))

ToHexString == Idle /\ Returned("to_hex_string", <<>>, to_hex_string(c))

ToRgbString == Idle /\ Returned("to_rgb_string", <<>>, to_rgb_string(c))

\* Color::from_hsla(h, s, l, a) on the tuple c.to_hsla() has just returned.
RebuildHsla ==
    /\ op.fn = "to_hsla"
    /\ Returned("from_hsla", out, from_hsla(out[1], out[2], out[3], out[4]))

\* Color::from_hsva(h, s, v, a) on the tuple c.to_hsva() has just returned.
RebuildHsva ==
    /\ op.fn = "to_hsva"
    /\ Returned("from_hsva", out, from_hsva(out[1], out[2], out[3], out[4]))

InterpolateRgb ==
    /\ Idle
    /\ \E o \in Others, t \in Params :
        Returned("interpolate_rgb", <<o, t>>, interpolate_rgb(c, o, t))

InterpolateLinearRgb ==
    /\ Idle
    /\ \E o \in Others, t \in Params :
        \E v \in interpolate_linear_rgb(c, o, t) :
            Returned("interpolate_linear_rgb", <<o, t>>, v)

InterpolateHsv ==
    /\ Idle
    /\ \E o \in Others, t \in Params :
        Returned("interpolate_hsv", <<o, t>>, interpolate_hsv(c, o, t))

InterpolateOklab ==
    /\ Idle
    /\ \E o \in Others, t \in Params :
        \E v \in interpolate_oklab(c, o, t) :
            Returned("interpolate_oklab", <<o, t>>, v)

ToOklaba == Idle /\ \E v \in to_oklaba(c) : Returned("to_oklaba", <<>>, v)

\* Color::from_oklaba(l, a, b, alpha) on the tuple c.to_oklaba() has just
\* returned.
RebuildOklaba ==
    /\ op.fn = "to_oklaba"
    /\ \E v \in from_oklaba(out[1], out[2], out[3], out[4]) :
           Returned("from_oklaba", out, v)

(***************************************************************************)
(* Specifications                                                          *)
(***************************************************************************)

\* The free angle functions.
NextAngle == NormalizeAngle \/ InterpAngle

SpecAngle == Init /\ [][NextAngle]_vars

\* The named constructors.
NextCtor ==
    \/ FromRgb
    \/ FromRgba
    \/ FromLinearRgba
    \/ FromHsla
    \/ FromHsva
    \/ FromHwba
    \/ FromOklaba

SpecCtor == Init /\ [][NextCtor]_vars

\* A colour and its two strings.
NextFormat ==
    \/ FromRgb
    \/ FromRgba
    \/ FromRgbU8
    \/ FromRgbaU8
    \/ ToHexString
    \/ ToRgbString

SpecFormat == Init /\ [][NextFormat]_vars

\* A colour taken apart into a cylindrical model and put together again.
NextRoundTrip ==
    \/ FromRgbaU8
    \/ FromHwba
    \/ ToHsla
    \/ ToHsva
    \/ ToHwba
    \/ RebuildHsla
    \/ RebuildHsva

SpecRoundTrip == Init /\ [][NextRoundTrip]_vars

\* The default colour blended with another, by each of the four operators.
NextInterp ==
    \/ InterpolateRgb
    \/ InterpolateLinearRgb
    \/ InterpolateHsv
    \/ InterpolateOklab

SpecInterp == Init /\ [][NextInterp]_vars

\* Two colours blended in RGB and in HSV.
NextBlend ==
    \/ FromRgbU8
    \/ InterpolateRgb
    \/ InterpolateHsv

SpecBlend == Init /\ [][NextBlend]_vars

\* A colour taken to Oklab and back.
NextOklab ==
    \/ FromRgbaU8
    \/ ToOklaba
    \/ RebuildOklaba

SpecOklab == Init /\ [][NextOklab]_vars

\* The constructors and accessors that call rgb_to_hsl, rgb_to_hsv,
\* hsv_to_hsl and hwb_to_rgb, on colours of any range.
NextDivide ==
    \/ FromRgb
    \/ FromHsva
    \/ FromHwba
    \/ ToHsla
    \/ ToHsva
    \/ ToHwba

SpecDivide == Init /\ [][NextDivide]_vars

\* The free conversion functions called on their own, and from_hwba.
NextGray ==
    \/ RgbToHsl
    \/ HslToRgb
    \/ HwbToRgb
    \/ FromHwba

SpecGray == Init /\ [][NextGray]_vars

\* Every call there is.
Next ==
    \/ NextAngle
    \/ RgbToHsl
    \/ HslToRgb
    \/ HwbToRgb
    \/ NextCtor
    \/ FromRgbU8
    \/ FromRgbaU8
    \/ ToHsla
    \/ ToHsva
    \/ ToHwba
    \/ ToHexString
    \/ ToRgbString
    \/ RebuildHsla
    \/ RebuildHsva
    \/ ToOklaba
    \/ RebuildOklaba
    \/ InterpolateRgb
    \/ InterpolateLinearRgb
    \/ InterpolateHsv
    \/ InterpolateOklab

Spec == Init /\ [][Next]_vars

(***************************************************************************)
(* Properties                                                              *)
(***************************************************************************)

\* Four times x as an integer, for x a multiple of a quarter.
Quarters(x) == x[1] * 2 ^ (x[2] + 2)

\* x lies in [lo, hi].
Within(x, lo, hi) == fle(lo, x) /\ fle(x, hi)

\* |x - y| is at most tol.
Close(x, y, tol) == Within(fsub(x, y), fneg(tol), tol)

\* Two angles are at most tol degrees apart round the circle.
CloseAngle(x, y, tol) ==
    \/ Close(x, y, tol)
    \/ Close(fadd(x, F360), y, tol)
    \/ Close(x, fadd(y, F360), tol)

\* The tolerance of a round trip on a channel, on a hue in degrees, and of
\* one rounding of a channel.
Tol == Lit(1, 10000)

HueTol == Lit(1, 1000)

RoundTol == Lit(1, 1000000)

CloseColor(x, y, tol) ==
    /\ Close(x.r, y.r, tol) /\ Close(x.g, y.g, tol)
    /\ Close(x.b, y.b, tol) /\ Close(x.a, y.a, tol)

\* The fields of a colour in [0, 1]: the three channels, all four.
InUnit3(x) ==
    Within(x.r, F0, F1) /\ Within(x.g, F0, F1) /\ Within(x.b, F0, F1)

InUnit4(x) == InUnit3(x) /\ Within(x.a, F0, F1)

\* n is the byte of the product p: the nearest integer, a half going up,
\* held to 0..255.
IsByteOf(n, p) ==
    /\ n \in 0..255
    /\ n = 0 \/ fle(fsub(I2F(n), FHalf), p)
    /\ n = 255 \/ flt(p, fadd(I2F(n), FHalf))

\* The integer part of x >= 0, and the two integers next to a product p,
\* held to 0..255.
Floor(x) ==
    IF x[2] >= 0 THEN x[1] * 2 ^ x[2]
    ELSE IF -x[2] > 30 THEN 0
    ELSE x[1] \div (2 ^ (-x[2]))

Nearby(p) ==
    IF p[1] <= 0 THEN {0}
    ELSE IF Top(p) > 9 THEN {255}
    ELSE {IMin(255, Floor(p)), IMin(255, Floor(p) + 1)}

\* The byte of the channel x.
ByteOf(x) == CHOOSE n \in Nearby(fmul(x, F255)) : IsByteOf(n, fmul(x, F255))

\* The value of a lowercase hexadecimal digit and of two of them, negative
\* if they are not that.
HexDigitValue(ch) ==
    IF \E d \in 0..15 : HexDigit(d) = ch
    THEN CHOOSE d \in 0..15 : HexDigit(d) = ch
    ELSE -256

HexValue(s) ==
    16 * HexDigitValue(SubSeq(s, 1, 1)) + HexDigitValue(SubSeq(s, 2, 2))

\* The real sum of w and b in [0, 1] is below 1 (1 - x is exact in f32 for
\* x in [1/2, 1]).
SumBelowOne(w, b) ==
    LET hi == fmax(w, b)
        lo == fmin(w, b)
    IN  flt(hi, FHalf) \/ flt(lo, fsub(F1, hi))

\* C2: for every angle x, normalize_angle(x) lies in [0, 360) and is the
\* same for x and for x + 360 * k, whatever the integer k.
C2_NormalizedEverywhere ==
    op.fn = "normalize_angle" =>
        /\ fle(F0, out) /\ flt(out, F360)
        /\ \A k \in -Turns..Turns :
               normalize_angle(fadd(op.in[1], I2F(360 * k))) = out

\* C3: for all angles a and b, interp_angle(a, b, 0) is exactly
\* normalize_angle(a) and interp_angle(a, b, 1) is exactly normalize_angle(b).
C3_EndpointsEverywhere ==
    op.fn = "interp_angle" =>
        /\ op.in[3] = F0 => out = normalize_angle(op.in[1])
        /\ op.in[3] = F1 => out = normalize_angle(op.in[2])

\* The f32 sum a + b is the real sum: nothing is rounded away.
Unrounded(a, b) == fsub(fadd(a, b), a) = b /\ fsub(fadd(a, b), b) = a

\* None of the three sums of let delta is rounded.
DeltaUnrounded(a0, a1) ==
    /\ Unrounded(a1, fneg(a0))
    /\ Unrounded(frem(fsub(a1, a0), F360), F540)
    /\ Unrounded(frem(fadd(frem(fsub(a1, a0), F360), F540), F360), fneg(F180))

\* Nor are the two sums of a0 + t * delta + 360.0.
TravelUnrounded(a0, a1, t) ==
    /\ DeltaUnrounded(a0, a1)
    /\ Unrounded(a0, fmul(t, interp_delta(a0, a1)))
    /\ Unrounded(fadd(a0, fmul(t, interp_delta(a0, a1))), F360)

\* Nor is the sum of normalize_angle(x), if it makes one.
WrapUnrounded(x) == fle(F0, frem(x, F360)) \/ Unrounded(frem(x, F360), F360)

\* C3, as the code has it: interp_angle(a, b, 0) is exactly
\* normalize_angle(a) when a >= -360 and a + 360 is not rounded, and
\* interp_angle(a, b, 1) is exactly normalize_angle(b) when a >= -180 and no
\* sum of the two functions is rounded.
C3_EndpointsUnrounded ==
    op.fn = "interp_angle" =>
        /\ (/\ op.in[3] = F0
            /\ fle(I2F(-360), op.in[1])
            /\ Unrounded(op.in[1], F360)) => out = normalize_angle(op.in[1])
        /\ (/\ op.in[3] = F1
            /\ fle(I2F(-180), op.in[1])
            /\ TravelUnrounded(op.in[1], op.in[2], F1)
            /\ WrapUnrounded(op.in[2])) => out = normalize_angle(op.in[2])

\* interp_angle(360, 90, 1) has returned 90, interp_angle(-90, 45, 0) has
\* returned 270, or interp_angle(8000.5, 0.5, 1) has returned 0.5.
C3_Witness ==
    /\ op.fn = "interp_angle"
    /\ \/ op.in = <<F360, I2F(90), F1>> /\ out = I2F(90)
       \/ op.in = <<I2F(-90), I2F(45), F0>> /\ out = I2F(270)
       \/ op.in = <<<<16001, -1>>, <<1, -1>>, F1>> /\ out = <<1, -1>>

\* One turn in units of 2^-19 degree, and what is left of x in those units
\* when whole turns are taken off it (x a multiple of 2^-19).
TurnUnits == 360 * 524288

Residue(x) ==
    IF x[1] >= 0 THEN DoubleMod(x[1] % TurnUnits, TurnUnits, x[2] + 19)
    ELSE (TurnUnits
          - DoubleMod((-x[1]) % TurnUnits, TurnUnits, x[2] + 19)) % TurnUnits

\* p and q, in those units, are whole turns apart.
SameTurn(p, q) == (p - q) % TurnUnits = 0

\* delta is congruent to a1 - a0 modulo 360.
ArcCongruent(a0, a1, delta) ==
    SameTurn(Residue(delta) + Residue(a0), Residue(a1))

\* res is congruent to a0 + t * delta modulo 360, t a multiple of 1/4.
ArcTravelled(a0, t, delta, res) ==
    SameTurn(Residue(res),
             Residue(a0) + Quarters(t) * Residue(<<delta[1], delta[2] - 2>>))

Constructors ==
    {"from_rgb", "from_rgba", "from_linear_rgba", "from_hsla", "from_hsva",
     "from_hwba", "from_oklaba"}

\* C1: every Color a named constructor returns, whatever the arguments, has
\* its four fields r, g, b and a within [0, 1].
C1_EveryConstructorClamps ==
    made.fn \in Constructors => InUnit4(c)

\* C1, as the code has it: from_hsla and from_hsva return four fields within
\* [0, 1]; from_hwba returns r, g, b within [0, 1] and the alpha it was
\* given; from_rgb and from_rgba return their arguments as they are;
\* from_linear_rgba and from_oklaba return the alpha they were given.
C1_WhoClamps ==
    /\ made.fn \in {"from_hsla", "from_hsva"} => InUnit4(c)
    /\ made.fn = "from_hwba" => InUnit3(c) /\ c.a = made.in[4]
    /\ made.fn = "from_rgb" =>
           c = Color(made.in[1], made.in[2], made.in[3], F1)
    /\ made.fn = "from_rgba" =>
           c = Color(made.in[1], made.in[2], made.in[3], made.in[4])
    /\ made.fn \in {"from_linear_rgba", "from_oklaba"} => c.a = made.in[4]

\* from_hsla(400, 2, 1/2, 2) has returned a colour whose alpha is 1.
C1_Witness ==
    /\ made = Call("from_hsla", <<I2F(400), F2, FHalf, F2>>)
    /\ c.a = F1
    /\ InUnit3(c)

\* C5: to_hex_string returns '#rrggbb', 7 characters, exactly when the
\* alpha rounds to the byte 255 and '#rrggbbaa', 9 characters, otherwise;
\* every pair of digits is the lowercase hexadecimal of round(channel * 255);
\* the opaque red gives "#ff0000" and from_rgba(1, 0, 0, 0.5) "#ff000080".
C5_HexString ==
    op.fn = "to_hex_string" =>
        /\ Len(out) = 7 <=> ByteOf(c.a) = 255
        /\ Len(out) = 9 <=> ByteOf(c.a) # 255
        /\ SubSeq(out, 1, 1) = "#"
        /\ HexValue(SubSeq(out, 2, 3)) = ByteOf(c.r)
        /\ HexValue(SubSeq(out, 4, 5)) = ByteOf(c.g)
        /\ HexValue(SubSeq(out, 6, 7)) = ByteOf(c.b)
        /\ Len(out) = 9 => HexValue(SubSeq(out, 8, 9)) = ByteOf(c.a)
        /\ made = Call("from_rgb_u8", <<255, 0, 0>>) => out = "#ff0000"
        /\ made = Call("from_rgba", <<F1, F0, F0, FHalf>>) => out = "#ff000080"

\* from_rgba(1, 0, 0, 0.5).to_hex_string() has returned "#ff000080".
C5_Witness ==
    /\ made = Call("from_rgba", <<F1, F0, F0, FHalf>>)
    /\ op.fn = "to_hex_string"
    /\ out = "#ff000080"

\* What Rust writes for {} of the alphas below 1.0 that the colours above
\* carry, and "?" for any other.
AlphaText(a) ==
    IF a = F0 THEN "0"
    ELSE IF a = Lit(1, 5) THEN "0.2"
    ELSE IF a = FHalf THEN "0.5"
    ELSE IF a = Lit(3, 5) THEN "0.6"
    ELSE IF a = fneg(FHalf) THEN "-0.5"
    ELSE IF a = <<1023, -10>> THEN "0.99902344"
    ELSE IF a = <<-1, 27>> THEN "-134217730"
    ELSE IF a = Lit(1, 100000) THEN "0.00001"
    ELSE "?"

\* C6: to_rgb_string returns 'rgb(r,g,b)' when the alpha is 1.0 or more
\* and 'rgba(r,g,b,a)' otherwise, r, g and b being the channels rounded to
\* bytes and a the alpha field itself, not rounded; from_rgb(1, 0, 0) gives
\* "rgb(255,0,0)".
C6_RgbString ==
    op.fn = "to_rgb_string" =>
        LET rgb == Dec(ByteOf(c.r)) \o "," \o Dec(ByteOf(c.g)) \o ","
                   \o Dec(ByteOf(c.b))
        IN  /\ fle(F1, c.a) => out = "rgb(" \o rgb \o ")"
            /\ flt(c.a, F1)
                   => out = "rgba(" \o rgb \o "," \o AlphaText(c.a) \o ")"
            /\ made = Call("from_rgb", <<F1, F0, F0>>) => out = "rgb(255,0,0)"
            /\ made = Call("from_rgba", <<F1, F0, F0, FHalf>>)
                   => out = "rgba(255,0,0,0.5)"
            /\ made = Call("from_rgba", <<F1, F0, F0, <<-1, 27>>>>)
                   => out = "rgba(255,0,0,-134217730)"

\* from_rgb(1, 0, 0).to_rgb_string() has returned "rgb(255,0,0)".
C6_Witness ==
    /\ made = Call("from_rgb", <<F1, F0, F0>>)
    /\ op.fn = "to_rgb_string"
    /\ out = "rgb(255,0,0)"

\* C7: for every Color c with r, g, b, a in [0, 1], from_hsla on the tuple
\* of c.to_hsla() returns c within tolerance, and so does from_hsva on the
\* tuple of c.to_hsva(), black, white and the grays included.
C7_HslHsvRoundTrip ==
    (op.fn \in {"from_hsla", "from_hsva"} /\ InUnit4(c)) =>
        /\ op.in = (IF op.fn = "from_hsla" THEN to_hsla(c) ELSE to_hsva(c))
        /\ CloseColor(out, c, Tol)

\* The colour (0.6, 0.2, 0, 1) has come back from its HSV tuple, and the
\* gray (0.6, 0.6, 0.6, 1) from its HSL tuple.
C7_Witness ==
    \/ /\ op.fn = "from_hsva"
       /\ c = from_rgba_u8(153, 51, 0, 255)
       /\ CloseColor(out, c, Tol)
    \/ /\ op.fn = "from_hsla"
       /\ c = from_rgba_u8(153, 153, 153, 255)
       /\ CloseColor(out, c, Tol)

\* The arguments of from_hwba the HWB claims are about: h in [0, 360), w and
\* b in [0, 1], alpha in [0, 1].
HwbDomain(in) ==
    /\ fle(F0, in[1]) /\ flt(in[1], F360)
    /\ Within(in[2], F0, F1) /\ Within(in[3], F0, F1)
    /\ Within(in[4], F0, F1)

\* to_hwba has returned the arguments of from_hwba, within tolerance.
HwbReturned ==
    /\ CloseAngle(out[1], made.in[1], HueTol)
    /\ Close(out[2], made.in[2], Tol)
    /\ Close(out[3], made.in[3], Tol)
    /\ out[4] = made.in[4]

\* C8: for every h in [0, 360), w and b in [0, 1] with w + b < 1 and alpha
\* in [0, 1], from_hwba(h, w, b, a).to_hwba() is (h, w, b, a) within
\* tolerance.
C8_HwbRoundTripBelowOne ==
    (/\ made.fn = "from_hwba" /\ op.fn = "to_hwba"
     /\ HwbDomain(made.in)
     /\ SumBelowOne(made.in[2], made.in[3])) => HwbReturned

\* The hue error the rounding of the channels can cause, in degrees:
\* 1e-4 + 2e-5 / (1 - w - b), the channels lying 1 - w - b apart.
HueBound(w, b) ==
    fadd(Lit(1, 10000), fdiv(Lit(2, 100000), fsub(fsub(F1, w), b)))

\* C8, as the code has it: where the f32 sum w + b is below 1.0, w and b
\* come back within tolerance, a exactly, and h within 1e-4 + 2e-5 /
\* (1 - w - b) degrees, which is within the tolerance of 1e-3 degrees for
\* w + b <= 0.975; where w + b is below 1 but its f32 sum is 1.0, w, b and a
\* come back and the hue returned is 0.
C8_HwbRoundTrip ==
    (/\ made.fn = "from_hwba" /\ op.fn = "to_hwba"
     /\ HwbDomain(made.in)
     /\ SumBelowOne(made.in[2], made.in[3])) =>
        /\ Close(out[2], made.in[2], Tol)
        /\ Close(out[3], made.in[3], Tol)
        /\ out[4] = made.in[4]
        /\ flt(fadd(made.in[2], made.in[3]), F1) =>
               CloseAngle(out[1], made.in[1], HueBound(made.in[2], made.in[3]))
        /\ fle(fadd(made.in[2], made.in[3]), Lit(39, 40)) =>
               CloseAngle(out[1], made.in[1], HueTol)
        /\ fle(F1, fadd(made.in[2], made.in[3])) => out[1] = F0

\* from_hwba(120, 0.2, 0.5, 1).to_hwba() has returned its tuple.
C8_Witness ==
    /\ made = Call("from_hwba", <<I2F(120), Lit(1, 5), FHalf, F1>>)
    /\ op.fn = "to_hwba"
    /\ HwbReturned

Interpolations ==
    {"interpolate_rgb", "interpolate_linear_rgb", "interpolate_hsv",
     "interpolate_oklab"}

\* The alpha a1 + t * (a2 - a1) of the blend the last call made.
BlendAlpha == lerp(c.a, op.in[1].a, op.in[2])

\* C9: whatever the operator and whatever t, the alpha of the blend is
\* a1 + t * (a2 - a1).
C9_AlphaLinearEverywhere ==
    op.fn \in Interpolations => out.a = BlendAlpha

\* C9, as the code has it: the alpha of the blend is a1 + t * (a2 - a1) for
\* interpolate_rgb, interpolate_linear_rgb and interpolate_oklab, and that
\* value clamped to [0, 1] for interpolate_hsv.
C9_AlphaLinearOrClamped ==
    /\ op.fn \in Interpolations \ {"interpolate_hsv"} => out.a = BlendAlpha
    /\ op.fn = "interpolate_hsv" =>
           out.a = (IF flt(BlendAlpha, F0) THEN F0
                    ELSE IF flt(F1, BlendAlpha) THEN F1 ELSE BlendAlpha)

\* An opaque colour has been blended at t = 2 with a transparent one:
\* interpolate_oklab has returned the alpha -1 and interpolate_hsv the
\* alpha 0.
C9_Witness ==
    /\ op.fn \in {"interpolate_oklab", "interpolate_hsv"}
    /\ c.a = F1 /\ op.in[1].a = F0 /\ op.in[2] = F2
    /\ \/ op.fn = "interpolate_oklab" /\ out.a = fneg(F1)
       \/ op.fn = "interpolate_hsv" /\ out.a = F0

\* C10: interpolate_rgb(c, c, t) is c, interpolate_rgb(c1, c2, 0) is c1 and
\* interpolate_rgb(c1, c2, 1) is c2, exactly and on all four fields.
C10_IdentitiesExact ==
    op.fn = "interpolate_rgb" =>
        /\ op.in[1] = c => out = c
        /\ op.in[2] = F0 => out = c
        /\ op.in[2] = F1 => out = op.in[1]

\* C10, as the code has it, for colours with fields in [0, 1]: the first two
\* identities are exact; interpolate_rgb(c1, c2, 1) is c2 to within one
\* rounding of each field.
C10_IdentitiesToRounding ==
    (op.fn = "interpolate_rgb" /\ InUnit4(c) /\ InUnit4(op.in[1])) =>
        /\ op.in[1] = c => out = c
        /\ op.in[2] = F0 => out = c
        /\ op.in[2] = F1 => CloseColor(out, op.in[1], RoundTol)

\* A colour with red 0.6 has been blended at t = 1 with one with red 0.2,
\* and the red returned is near 0.2.
C10_Witness ==
    /\ op.fn = "interpolate_rgb"
    /\ op.in[2] = F1
    /\ c.r = Lit(3, 5) /\ op.in[1].r = Lit(1, 5)
    /\ Close(out.r, Lit(1, 5), RoundTol)


\* C11: a colour with r, g and b in [0, 1] taken to Oklab by to_oklaba and
\* built again by from_oklaba comes back with every channel within the
\* tolerance and with the alpha it had, exactly.
C11_OklabRoundTrip ==
    (op.fn = "from_oklaba" /\ InUnit3(c)) =>
        /\ CloseColor(out, c, Tol)
        /\ out.a = c.a

\* A saturated colour that is not a gray, half transparent, has come back
\* from Oklab: not bit for bit, yet within the tolerance.
C11_Witness ==
    /\ op.fn = "from_oklaba"
    /\ made = Call("from_rgba_u8", <<153, 51, 255, 153>>)
    /\ <<out.r, out.g, out.b>> # <<c.r, c.g, c.b>>
    /\ out.a = c.a

\* Neither an infinity nor NaN.
Finite(x) == ~NonFinite(x)

FiniteColor(x) == Finite(x.r) /\ Finite(x.g) /\ Finite(x.b) /\ Finite(x.a)

\* C12: no division of rgb_to_hsl, rgb_to_hsv, hsv_to_hsl or hwb_to_rgb
\* meets a zero divisor, whatever colour the constructors built: the colour
\* held and every tuple to_hsla, to_hsva and to_hwba return have no infinite
\* and no NaN component.
C12_NoDivisionByZero ==
    /\ FiniteColor(c)
    /\ op.fn \in {"to_hsla", "to_hsva", "to_hwba"} =>
           \A i \in 1..4 : Finite(out[i])

\* C13: a gray goes through the degenerate branches of HSL.  For every x,
\* rgb_to_hsl(x, x, x) is (0, 0, x), black giving (0, 0, 0) and white
\* (0, 0, 1); for every hue h and lightness l, hsl_to_rgb(h, 0, l) is
\* (l, l, l), whatever h.
C13_AchromaticHsl ==
    /\ (op.fn = "rgb_to_hsl" /\ op.in[1] = op.in[2] /\ op.in[2] = op.in[3]) =>
           out = <<F0, F0, op.in[1]>>
    /\ op = Call("rgb_to_hsl", <<F0, F0, F0>>) => out = <<F0, F0, F0>>
    /\ op = Call("rgb_to_hsl", <<F1, F1, F1>>) => out = <<F0, F0, F1>>
    /\ (op.fn = "hsl_to_rgb" /\ op.in[2] = F0) =>
           out = <<op.in[3], op.in[3], op.in[3]>>

\* rgb_to_hsl has been called on the gray 0.6.
C13_Witness ==
    /\ op = Call("rgb_to_hsl", <<Lit(3, 5), Lit(3, 5), Lit(3, 5)>>)
    /\ out = <<F0, F0, Lit(3, 5)>>

\* w + b >= 1 as real numbers, for w and b in [0, 1].
GrayDomain(w, b) ==
    /\ Within(w, F0, F1) /\ Within(b, F0, F1)
    /\ ~SumBelowOne(w, b)

\* x is the gray of whiteness w and blackness b: its three channels are the
\* same and, multiplied by w + b, give w back to within one rounding.
IsGrayOf(x, w, b) ==
    /\ x[1] = x[2] /\ x[2] = x[3]
    /\ Close(fmul(x[1], fadd(w, b)), w, RoundTol)
    /\ Within(x[1], F0, F1)

\* C14: for every hue h and every w and b in [0, 1] with w + b >= 1,
\* hwb_to_rgb(h, w, b) is the gray w / (w + b) on its three channels, the
\* same as for the hue 0; and from_hwba builds the colour of that gray.
C14_HwbGray ==
    /\ (op.fn = "hwb_to_rgb" /\ GrayDomain(op.in[2], op.in[3])) =>
           /\ IsGrayOf(out, op.in[2], op.in[3])
           /\ out = hwb_to_rgb(F0, op.in[2], op.in[3])
    /\ (made.fn = "from_hwba" /\ GrayDomain(made.in[2], made.in[3])) =>
           /\ IsGrayOf(<<c.r, c.g, c.b>>, made.in[2], made.in[3])
           /\ c.a = made.in[4]

\* hwb_to_rgb(120, 0.5, 1) has returned the gray 1/3.
C14_Witness ==
    /\ op = Call("hwb_to_rgb", <<I2F(120), FHalf, F1>>)
    /\ out = <<Lit(1, 3), Lit(1, 3), Lit(1, 3)>>

=========================================================================
